---- MODULE Spec2Model ----
(***************************************************************************)
(* HackerOS-Steam container controller (src/container/src/main.rs).        *)
(*                                                                         *)
(* One invocation of the command-line program runs one lifecycle command   *)
(* (create, run, update, kill, restart, remove, status) against the Podman *)
(* daemon and the host file system.  The model keeps the host (device      *)
(* nodes, environment, identity), the four storage directories, the        *)
(* daemon-visible session, and for each invocation its position in the     *)
(* code, its local variables and the daemon calls it has issued.           *)
(*                                                                         *)
(* Each action is the code between two suspension points (.await): the     *)
(* daemon call or file-system call that is awaited, with the synchronous   *)
(* code that follows it.  Every daemon call may fail (transport fault or   *)
(* daemon error); it may succeed only in the session states in which the   *)
(* daemon accepts it.                                                      *)
(***************************************************************************)
EXTENDS Integers, Sequences, FiniteSets, TLC

VARIABLES
    host,       \* device nodes, environment variables, identity, daemon socket
    dirs,       \* which of the four storage directories exist
    upper,      \* contents of the upper directory: entry -> content
    session,    \* daemon-visible session state
    installed,  \* the first-boot install command has run to its end in the session
    sessSpec,   \* <<opts>> the session was created from, <<>> when Absent
    sessId,     \* daemon identity of the session, 0 when Absent
    created,    \* number of sessions the daemon has created so far
    image,      \* base image in the daemon's store
    pc,         \* per invocation: position in the code
    cmd,        \* per invocation: the subcommand
    calls,      \* per invocation: daemon calls issued so far, in order
    result,     \* per invocation: outcome
    loc,        \* per invocation: local variables
    pre         \* per invocation: daemon and storage state when it started

vars == <<host, dirs, upper, session, installed, sessSpec, sessId, created,
          image, pc, cmd, calls, result, loc, pre>>

hostVars == <<host>>
fsVars == <<dirs, upper>>
daemonVars == <<session, installed, sessSpec, sessId, created, image>>

-----------------------------------------------------------------------------
(* Bounds of the model *)

\* chunks an exec or pull output stream delivers before it ends
MaxChunks == 2

\* sessions the daemon creates in one behaviour
MaxSessions == 2

-----------------------------------------------------------------------------
(* Constants of the program *)

CONTAINER_NAME == "hackerosteam"
IMAGE_NAME == "registry.fedoraproject.org/fedora:43"

\* the candidate list of Nvidia device nodes, in the order of the loop
NvidiaNodes ==
    <<"/dev/nvidia0", "/dev/nvidiactl", "/dev/nvidia-modeset",
      "/dev/nvidia-uvm", "/dev/nvidia-uvm-tools">>

Procs == {1, 2}
Commands == {"create", "run", "update", "kill", "restart", "remove", "status"}

\* an environment variable that is not set
NoVal == "unset"

Range(s) == {s[i] : i \in 1..Len(s)}

\* the four storage directories, in the order get_host_data_dirs creates them
DirOrder == <<"base", "empty", "upper", "work">>
AllDirs == Range(DirOrder)

\* entries of the upper directory: user data of earlier sessions, and the
\* directory the first-boot install makes
Entries == {"save", ".steam"}

-----------------------------------------------------------------------------
(* Host states *)

AllHosts ==
    [dri : BOOLEAN, nvidia : SUBSET Range(NvidiaNodes), toolkit : BOOLEAN,
     wayland : {NoVal, "wayland-1"}, display : {NoVal, ":1"},
     xdg : {NoVal, "/data"}, home : {"/home/u"},
     uid : {0, 1000}, gid : {1000}, socket : BOOLEAN]

MesaHost ==
    [dri |-> TRUE, nvidia |-> {}, toolkit |-> FALSE,
     wayland |-> "wayland-1", display |-> NoVal,
     xdg |-> NoVal, home |-> "/home/u",
     uid |-> 1000, gid |-> 1000, socket |-> TRUE]

LifecycleHosts ==
    { MesaHost,
      [MesaHost EXCEPT !.nvidia = {"/dev/nvidia0", "/dev/nvidiactl"},
                       !.toolkit = TRUE, !.wayland = NoVal, !.display = ":1",
                       !.xdg = "/data"],
      [MesaHost EXCEPT !.dri = FALSE],
      [MesaHost EXCEPT !.wayland = NoVal],
      [MesaHost EXCEPT !.nvidia = {"/dev/nvidia0"}],
      [MesaHost EXCEPT !.home = NoVal],
      [MesaHost EXCEPT !.uid = 0],
      [MesaHost EXCEPT !.socket = FALSE] }

-----------------------------------------------------------------------------
(* Pure functions of the program *)

\* Ok(path) or an error when neither XDG_DATA_HOME nor HOME is set
get_data_dir(h) ==
    IF h.xdg # NoVal
    THEN [ok |-> TRUE, path |-> h.xdg \o "/hackerosteam"]
    ELSE IF h.home # NoVal
         THEN [ok |-> TRUE, path |-> h.home \o "/.local/share/hackerosteam"]
         ELSE [ok |-> FALSE, path |-> ""]

\* base.join(d)
DirPath(h, d) ==
    IF d = "base" THEN get_data_dir(h).path
    ELSE get_data_dir(h).path \o "/" \o d

\* variant: the work directory is not made (C5 must tell it from the code)
get_host_data_dirs_no_work(d, k) ==
    d \cup ({DirOrder[i] : i \in 1..k} \ {"work"})

\* the directories that exist after get_host_data_dirs has made the first k
get_host_data_dirs(d, k) == d \cup {DirOrder[i] : i \in 1..k}

\* variant: the X11 variable is looked at first (C13 must tell it from the
\* code)
detect_display_server_x11_first(h) ==
    IF h.display # NoVal THEN "x11"
    ELSE IF h.wayland # NoVal THEN "wayland"
    ELSE "none"

detect_display_server(h) ==
    IF h.wayland # NoVal THEN "wayland"
    ELSE IF h.display # NoVal THEN "x11"
    ELSE "none"

\* variant: the toolkit is not probed (C2 must tell it from the code)
check_gpu_drivers_no_probe(h) ==
    IF ~h.dri
    THEN [ok |-> FALSE, err |-> "NoGpu", is_nvidia |-> FALSE]
    ELSE [ok |-> TRUE, err |-> "", is_nvidia |-> "/dev/nvidia0" \in h.nvidia]

check_gpu_drivers(h) ==
    IF ~h.dri
    THEN [ok |-> FALSE, err |-> "NoGpu", is_nvidia |-> FALSE]
    ELSE LET is_nvidia == "/dev/nvidia0" \in h.nvidia
         IN  IF is_nvidia /\ ~h.toolkit
             THEN [ok |-> FALSE, err |-> "NvidiaMissing", is_nvidia |-> TRUE]
             ELSE [ok |-> TRUE, err |-> "", is_nvidia |-> is_nvidia]

IsEmptyDir(u) == \A e \in Entries : u[e] = "absent"

RunUser(h) == "/run/user/" \o ToString(h.uid)

Bind(path, options) ==
    [type |-> "bind", source |-> path, destination |-> path,
     options |-> options]

OverlayOpts(h) ==
    <<"upperdir=" \o DirPath(h, "upper"),
      "lowerdir=" \o DirPath(h, "empty"),
      "workdir=" \o DirPath(h, "work")>>

BaseMounts(h) ==
    <<Bind("/tmp/.X11-unix", <<"rbind", "ro">>),
      Bind(RunUser(h), <<"rbind", "rprivate">>),
      [type |-> "overlay", source |-> "", destination |-> "/home/steam",
       options |-> OverlayOpts(h)],
      Bind("/dev/dri", <<"rbind", "rprivate">>),
      Bind("/dev/snd", <<"rbind", "rprivate">>),
      Bind("/dev/input", <<"rbind", "rprivate">>)>>

\* the loop over the candidate list: a bind for each node that exists
NvidiaMounts(h) ==
    LET present == SelectSeq(NvidiaNodes, LAMBDA dev : dev \in h.nvidia)
    IN  [i \in 1..Len(present) |-> Bind(present[i], <<"rbind", "rprivate">>)]

\* variant: the order of the mounts follows the state of the upper directory
\* (C11 must tell it from the code)
BuildMountsByStorage(h, is_nvidia) ==
    LET m == IF is_nvidia THEN BaseMounts(h) \o NvidiaMounts(h)
             ELSE BaseMounts(h)
    IN  IF IsEmptyDir(upper) THEN m ELSE Tail(m) \o <<Head(m)>>

BuildMounts(h, is_nvidia) ==
    IF is_nvidia THEN BaseMounts(h) \o NvidiaMounts(h) ELSE BaseMounts(h)

CgroupRule(major) ==
    [type |-> "c", major |-> major, minor |-> -1, access |-> "rwm",
     allow |-> TRUE]

BuildDeviceRules(is_nvidia) ==
    <<CgroupRule(226), CgroupRule(116), CgroupRule(13)>>
    \o (IF is_nvidia THEN <<CgroupRule(195), CgroupRule(235)>> ELSE <<>>)

\* env::var(name).unwrap_or(fallback)
EnvOr(value, fallback) == IF value # NoVal THEN value ELSE fallback

\* variant: both display variables are set, whatever the transport, with the
\* fallback for the one the host does not set (C10 must tell it from the code)
BuildEnvsBoth(h, display, is_nvidia) ==
    <<<<"PULSE_SERVER", "unix:" \o RunUser(h) \o "/pulse/native">>,
      <<"STEAMOS", "1">>,
      <<"STEAM_RUNTIME", "0">>,
      <<"XDG_RUNTIME_DIR", RunUser(h)>>,
      <<"DISPLAY", EnvOr(h.display, ":0")>>,
      <<"WAYLAND_DISPLAY", EnvOr(h.wayland, "wayland-0")>>>>
    \o (IF is_nvidia
        THEN <<<<"NVIDIA_VISIBLE_DEVICES", "all">>,
               <<"NVIDIA_DRIVER_CAPABILITIES", "all">>>>
        ELSE <<>>)

BuildEnvs(h, display, is_nvidia) ==
    <<<<"PULSE_SERVER", "unix:" \o RunUser(h) \o "/pulse/native">>,
      <<"STEAMOS", "1">>,
      <<"STEAM_RUNTIME", "0">>,
      <<"XDG_RUNTIME_DIR", RunUser(h)>>>>
    \o (IF display = "x11"
        THEN <<<<"DISPLAY", EnvOr(h.display, ":0")>>>> ELSE <<>>)
    \o (IF display = "wayland"
        THEN <<<<"WAYLAND_DISPLAY", EnvOr(h.wayland, "wayland-0")>>>> ELSE <<>>)
    \o (IF is_nvidia
        THEN <<<<"NVIDIA_VISIBLE_DEVICES", "all">>,
               <<"NVIDIA_DRIVER_CAPABILITIES", "all">>>>
        ELSE <<>>)

BuildOpts(h, display, is_nvidia) ==
    [image |-> IMAGE_NAME,
     name |-> CONTAINER_NAME,
     terminal |-> TRUE,
     namespaces |-> [user |-> "keep-id", ipc |-> "host", pid |-> "host",
                     uts |-> "host", net |-> "host"],
     mounts |-> BuildMounts(h, is_nvidia),
     add_capabilities |-> <<"SYS_NICE", "IPC_LOCK">>,
     drop_capabilities |-> <<"ALL">>,
     selinux_opts |-> <<"disable">>,
     no_new_privileges |-> TRUE,
     privileged |-> FALSE,
     env |-> BuildEnvs(h, display, is_nvidia),
     \* the memory limit, 17_179_869_184 bytes, is kept in MiB
     limits |-> [cpu_quota |-> 90000, memory_mib |-> 16384,
                 pids |-> 4096, blkio_weight |-> 1000],
     devices |-> BuildDeviceRules(is_nvidia),
     oci_runtime |-> IF is_nvidia THEN "nvidia" ELSE "default"]

-----------------------------------------------------------------------------
(* The daemon: which calls it accepts, and what an accepted call does *)

InspectAccepted == session # "Absent"

CreateAccepted == session = "Absent" /\ created < MaxSessions

DaemonCreate(opts) ==
    /\ session' = "Created"
    /\ installed' = FALSE
    /\ sessSpec' = opts
    /\ sessId' = created + 1
    /\ created' = created + 1
    /\ UNCHANGED image

StartAccepted == session # "Absent"

DaemonStart ==
    /\ session' = "Running"
    /\ UNCHANGED <<installed, sessSpec, sessId, created, image>>

ExecAccepted == session = "Running"

StopAccepted == session # "Absent"

DaemonStop ==
    /\ session' = (IF session = "Running" THEN "Stopped" ELSE session)
    /\ UNCHANGED <<installed, sessSpec, sessId, created, image>>

KillAccepted == session = "Running"

DaemonKill ==
    /\ session' = "Stopped"
    /\ UNCHANGED <<installed, sessSpec, sessId, created, image>>

RestartAccepted == session # "Absent"

DaemonRestart ==
    /\ session' = "Running"
    /\ UNCHANGED <<installed, sessSpec, sessId, created, image>>

DeleteAccepted == session # "Absent"

DaemonDelete ==
    /\ session' = "Absent"
    /\ installed' = FALSE
    /\ sessSpec' = <<>>
    /\ sessId' = 0
    /\ UNCHANGED <<created, image>>

\* the first-boot install command, run as root in the session, at its end:
\* mkdir -p /home/steam/.steam lands in the upper directory of the overlay
InstallWrites(u) ==
    [u EXCEPT ![".steam"] = IF @ = "absent" THEN "new" ELSE @]

-----------------------------------------------------------------------------
(* An invocation *)

\* the locals of an invocation; found is the upper directory as ensure_overlay
\* acted on it, conflict is whether the daemon refused a create because the
\* session existed
LocInit ==
    [is_nvidia |-> FALSE, display |-> "none", is_empty |-> TRUE,
     overlay |-> "none", opts |-> <<>>, inspect |-> "none",
     stop_failed |-> FALSE, report |-> "none", chunks |-> 0,
     exec |-> "none", found |-> [e \in Entries |-> "absent"],
     conflict |-> FALSE]

Snapshot ==
    [session |-> session, installed |-> installed, sessId |-> sessId,
     sessSpec |-> sessSpec, dirs |-> dirs, upper |-> upper, image |-> image]

Finish(p, r) ==
    /\ pc' = [pc EXCEPT ![p] = "done"]
    /\ result' = [result EXCEPT ![p] = r]

Goto(p, l) ==
    /\ pc' = [pc EXCEPT ![p] = l]
    /\ UNCHANGED result

Call(p, c) == calls' = [calls EXCEPT ![p] = Append(@, c)]

\* the match on cli.command
Entry(c) ==
    CASE c \in {"create", "run"} -> "caps"
      [] c = "update" -> "pull"
      [] c = "kill" -> "kill"
      [] c = "restart" -> "restart"
      [] c = "remove" -> "rm_stop"
      [] c = "status" -> "status"

\* variant: the daemon socket is not looked for (C20 must tell it from the
\* code)
StartNoSocketCheck(p, c) ==
    /\ pc[p] \in {"idle", "done"}
    /\ cmd' = [cmd EXCEPT ![p] = c]
    /\ calls' = [calls EXCEPT ![p] = <<>>]
    /\ loc' = [loc EXCEPT ![p] = LocInit]
    /\ pre' = [pre EXCEPT ![p] = Snapshot]
    /\ IF host.uid = 0 THEN Finish(p, "Root")
       ELSE /\ pc' = [pc EXCEPT ![p] = Entry(c)]
            /\ result' = [result EXCEPT ![p] = "none"]
    /\ UNCHANGED <<hostVars, fsVars, daemonVars>>

\* main, up to the match: the root guard, then the daemon socket
Start(p, c) ==
    /\ pc[p] \in {"idle", "done"}
    /\ cmd' = [cmd EXCEPT ![p] = c]
    /\ calls' = [calls EXCEPT ![p] = <<>>]
    /\ loc' = [loc EXCEPT ![p] = LocInit]
    /\ pre' = [pre EXCEPT ![p] = Snapshot]
    /\ IF host.uid = 0 THEN Finish(p, "Root")
       ELSE IF ~host.socket THEN Finish(p, "NoSocket")
       ELSE /\ pc' = [pc EXCEPT ![p] = Entry(c)]
            /\ result' = [result EXCEPT ![p] = "none"]
    /\ UNCHANGED <<hostVars, fsVars, daemonVars>>

-----------------------------------------------------------------------------
(* create_container *)

\* create_container returns Ok: the end of create, or the rest of run
ReturnFromCreate(p) ==
    IF cmd[p] = "run" THEN Goto(p, "r_start") ELSE Finish(p, "ok")

\* the capability checks, then get_host_data_dirs: k of the four directories
\* are made before a creation fails (k = 4: none fails)
CreateCaps(p) ==
    /\ pc[p] = "caps"
    /\ LET gpu == check_gpu_drivers(host)
           display == detect_display_server(host)
       IN  \/ /\ ~gpu.ok
              /\ Finish(p, gpu.err)
              /\ UNCHANGED <<loc, dirs>>
           \/ /\ gpu.ok
              /\ display = "none"
              /\ Finish(p, "NoDisplay")
              /\ UNCHANGED <<loc, dirs>>
           \/ /\ gpu.ok
              /\ display # "none"
              /\ \E k \in 0..Len(DirOrder) :
                    /\ get_data_dir(host).ok \/ k = 0
                    /\ k < Len(DirOrder) =>
                          \/ ~get_data_dir(host).ok
                          \/ DirOrder[k + 1] \notin dirs
                    /\ dirs' = get_host_data_dirs(dirs, k)
                    /\ IF k = Len(DirOrder)
                       THEN /\ Goto(p, "ov_read")
                            /\ loc' = [loc EXCEPT ![p].is_nvidia = gpu.is_nvidia,
                                                  ![p].display = display]
                       ELSE /\ Finish(p, "Io")
                            /\ UNCHANGED loc
    /\ UNCHANGED <<hostVars, upper, daemonVars, cmd, calls, pre>>

\* ensure_overlay, the check: is the upper directory empty
EnsureOverlayRead(p) ==
    /\ pc[p] = "ov_read"
    /\ \/ /\ loc' = [loc EXCEPT ![p].is_empty =
                        IF "upper" \in dirs THEN IsEmptyDir(upper) ELSE TRUE]
          /\ Goto(p, "ov_act")
       \/ /\ "upper" \in dirs
          /\ Finish(p, "Io")
          /\ UNCHANGED loc
    /\ UNCHANGED <<hostVars, fsVars, daemonVars, cmd, calls, pre>>

\* ensure_overlay, the act: which path it takes
OverlayPath(d, is_empty) ==
    IF "upper" \notin d \/ is_empty THEN "init" ELSE "restore"

\* the directories after the act: create_dir_all of upper and of work
EnsureOverlayDirs(d, is_empty) ==
    IF OverlayPath(d, is_empty) = "init"
    THEN d \cup {"base", "upper", "work"}
    ELSE d

\* variant: the act makes the upper directory anew (C4 must tell it from the
\* code)
EnsureOverlayUpperRecreate(u, d, is_empty) ==
    [e \in Entries |-> "absent"]

\* variant: the init path makes the upper directory anew (C17 must tell it
\* from the code)
EnsureOverlayUpperReinit(u, d, is_empty) ==
    IF OverlayPath(d, is_empty) = "init"
    THEN [e \in Entries |-> "absent"]
    ELSE u

\* the upper directory's contents after the act: create_dir_all leaves an
\* existing directory as it is


EnsureOverlayUpper(u, d, is_empty) == u

\* ensure_overlay, the act, and the construction of the execution spec
EnsureOverlayAct(p) ==
    /\ pc[p] = "ov_act"
    /\ dirs' = EnsureOverlayDirs(dirs, loc[p].is_empty)
    /\ upper' = EnsureOverlayUpper(upper, dirs, loc[p].is_empty)
    /\ loc' = [loc EXCEPT
                  ![p].overlay = OverlayPath(dirs, loc[p].is_empty),
                  ![p].found = upper,
                  ![p].opts = <<BuildOpts(host, loc[p].display,
                                          loc[p].is_nvidia)>>]
    /\ Goto(p, "inspect")
    /\ UNCHANGED <<hostVars, daemonVars, cmd, calls, pre>>

\* variant: no early return when the session exists (C1 must tell it from
\* the code)
CreateInspectNoSkip(p) ==
    /\ pc[p] = "inspect"
    /\ Call(p, "inspect")
    /\ \/ /\ InspectAccepted
          /\ loc' = [loc EXCEPT ![p].inspect = "ok"]
       \/ loc' = [loc EXCEPT ![p].inspect = "err"]
    /\ Goto(p, "create")
    /\ UNCHANGED <<hostVars, fsVars, daemonVars, cmd, pre>>

\* variant: the session is created without asking the daemon whether it
\* exists (C7 must tell it from the code)
CreateInspectOmitted(p) ==
    /\ pc[p] = "inspect"
    /\ loc' = [loc EXCEPT ![p].inspect = "err"]
    /\ Goto(p, "create")
    /\ UNCHANGED <<hostVars, fsVars, daemonVars, cmd, calls, pre>>

\* inspect: the session exists, nothing to do; or it does not, create it
CreateInspect(p) ==
    /\ pc[p] = "inspect"
    /\ Call(p, "inspect")
    /\ \/ /\ InspectAccepted
          /\ loc' = [loc EXCEPT ![p].inspect = "ok"]
          /\ ReturnFromCreate(p)
       \/ /\ loc' = [loc EXCEPT ![p].inspect = "err"]
          /\ Goto(p, "create")
    /\ UNCHANGED <<hostVars, fsVars, daemonVars, cmd, pre>>

\* variant: the daemon's answer to an accepted create is taken for an error
\* (C3 must tell it from the code)
CreateCreateReportsFailure(p) ==
    /\ pc[p] = "create"
    /\ Call(p, "create")
    /\ \/ /\ CreateAccepted
          /\ DaemonCreate(loc[p].opts)
       \/ UNCHANGED daemonVars
    /\ Finish(p, "Daemon")
    /\ UNCHANGED <<hostVars, fsVars, cmd, loc, pre>>

\* the daemon creates the session, or refuses: always when the session exists
CreateCreate(p) ==
    /\ pc[p] = "create"
    /\ Call(p, "create")
    /\ \/ /\ CreateAccepted
          /\ DaemonCreate(loc[p].opts)
          /\ Goto(p, "start")
          /\ UNCHANGED loc
       \/ /\ Finish(p, "Daemon")
          /\ loc' = [loc EXCEPT ![p].conflict = (session # "Absent")]
          /\ UNCHANGED daemonVars
    /\ UNCHANGED <<hostVars, fsVars, cmd, pre>>

CreateStart(p) ==
    /\ pc[p] = "start"
    /\ Call(p, "start")
    /\ \/ /\ StartAccepted
          /\ DaemonStart
          /\ Goto(p, "exec_create")
       \/ /\ Finish(p, "Daemon")
          /\ UNCHANGED daemonVars
    /\ UNCHANGED <<hostVars, fsVars, cmd, loc, pre>>

CreateExecCreate(p) ==
    /\ pc[p] = "exec_create"
    /\ Call(p, "exec_create")
    /\ \/ /\ ExecAccepted
          /\ loc' = [loc EXCEPT ![p].exec = "root"]
          /\ Goto(p, "exec_start")
       \/ /\ Finish(p, "Daemon")
          /\ UNCHANGED loc
    /\ UNCHANGED <<hostVars, fsVars, daemonVars, cmd, pre>>

\* variant: the install command's output is not read before the stop (C14
\* must tell it from the code)
CreateExecStartNoDrain(p) ==
    /\ pc[p] = "exec_start"
    /\ Call(p, "exec_start")
    /\ \/ /\ ExecAccepted
          /\ loc' = [loc EXCEPT ![p].chunks = 0]
          /\ Goto(p, "stop")
       \/ /\ Finish(p, "Daemon")
          /\ UNCHANGED loc
    /\ UNCHANGED <<hostVars, fsVars, daemonVars, cmd, pre>>

CreateExecStart(p) ==
    /\ pc[p] = "exec_start"
    /\ Call(p, "exec_start")
    /\ \/ /\ ExecAccepted
          /\ loc' = [loc EXCEPT ![p].chunks = 0]
          /\ Goto(p, "stream")
       \/ /\ Finish(p, "Daemon")
          /\ UNCHANGED loc
    /\ UNCHANGED <<hostVars, fsVars, daemonVars, cmd, pre>>

\* the loop over the install command's output: a chunk, an error, or the end
CreateStream(p) ==
    /\ pc[p] = "stream"
    /\ \/ /\ loc[p].chunks < MaxChunks
          /\ loc' = [loc EXCEPT ![p].chunks = @ + 1]
          /\ Goto(p, "stream")
          /\ UNCHANGED <<upper, installed>>
       \/ /\ Finish(p, "Stream")
          /\ UNCHANGED <<loc, upper, installed>>
       \/ /\ installed' = (IF session = "Running" THEN TRUE ELSE installed)
          /\ upper' = (IF session = "Running" THEN InstallWrites(upper)
                       ELSE upper)
          /\ Goto(p, "stop")
          /\ UNCHANGED loc
    /\ UNCHANGED <<hostVars, dirs, session, sessSpec, sessId, created, image,
                   cmd, calls, pre>>

CreateStop(p) ==
    /\ pc[p] = "stop"
    /\ Call(p, "stop")
    /\ \/ /\ StopAccepted
          /\ DaemonStop
          /\ ReturnFromCreate(p)
       \/ /\ Finish(p, "Daemon")
          /\ UNCHANGED daemonVars
    /\ UNCHANGED <<hostVars, fsVars, cmd, loc, pre>>

-----------------------------------------------------------------------------
(* run: after create_container *)

\* variant: the result of the start is dropped (C15 must tell it from the
\* code)
RunStartIgnored(p) ==
    /\ pc[p] = "r_start"
    /\ Call(p, "start")
    /\ \/ /\ StartAccepted
          /\ DaemonStart
       \/ UNCHANGED daemonVars
    /\ Goto(p, "r_exec_create")
    /\ UNCHANGED <<hostVars, fsVars, cmd, loc, pre>>

RunStart(p) ==
    /\ pc[p] = "r_start"
    /\ Call(p, "start")
    /\ \/ /\ StartAccepted
          /\ DaemonStart
          /\ Goto(p, "r_exec_create")
       \/ /\ Finish(p, "Daemon")
          /\ UNCHANGED daemonVars
    /\ UNCHANGED <<hostVars, fsVars, cmd, loc, pre>>

RunExecCreate(p) ==
    /\ pc[p] = "r_exec_create"
    /\ Call(p, "exec_create")
    /\ \/ /\ ExecAccepted
          /\ loc' = [loc EXCEPT ![p].exec = "steam"]
          /\ Goto(p, "r_exec_start")
       \/ /\ Finish(p, "Daemon")
          /\ UNCHANGED loc
    /\ UNCHANGED <<hostVars, fsVars, daemonVars, cmd, pre>>

RunExecStart(p) ==
    /\ pc[p] = "r_exec_start"
    /\ Call(p, "exec_start")
    /\ \/ /\ ExecAccepted
          /\ loc' = [loc EXCEPT ![p].chunks = 0]
          /\ Goto(p, "r_stream")
       \/ /\ Finish(p, "Daemon")
          /\ UNCHANGED loc
    /\ UNCHANGED <<hostVars, fsVars, daemonVars, cmd, pre>>

\* the loop over the interactive command's output
RunStream(p) ==
    /\ pc[p] = "r_stream"
    /\ \/ /\ loc[p].chunks < MaxChunks
          /\ loc' = [loc EXCEPT ![p].chunks = @ + 1]
          /\ Goto(p, "r_stream")
       \/ /\ Finish(p, "Stream")
          /\ UNCHANGED loc
       \/ /\ Finish(p, "ok")
          /\ UNCHANGED loc
    /\ UNCHANGED <<hostVars, fsVars, daemonVars, cmd, calls, pre>>

-----------------------------------------------------------------------------
(* update *)

UpdatePull(p) ==
    /\ pc[p] = "pull"
    /\ Call(p, "pull")
    /\ loc' = [loc EXCEPT ![p].chunks = 0]
    /\ Goto(p, "pull_stream")
    /\ UNCHANGED <<hostVars, fsVars, daemonVars, cmd, pre>>

\* variant: the session is rebuilt from the pulled image (C16 must tell it
\* from the code)
UpdateStreamRebuilds(p) ==
    /\ pc[p] = "pull_stream"
    /\ \/ /\ loc[p].chunks < MaxChunks
          /\ loc' = [loc EXCEPT ![p].chunks = @ + 1]
          /\ Goto(p, "pull_stream")
          /\ UNCHANGED <<image, session, installed>>
       \/ /\ Finish(p, "Daemon")
          /\ UNCHANGED <<loc, image, session, installed>>
       \/ /\ image' = "latest"
          /\ session' = (IF session = "Absent" THEN session ELSE "Created")
          /\ installed' = FALSE
          /\ Finish(p, "ok")
          /\ UNCHANGED loc
    /\ UNCHANGED <<hostVars, fsVars, sessSpec, sessId, created, cmd, calls,
                   pre>>

\* the loop over the pull reports: a report, an error, or the end
UpdateStream(p) ==
    /\ pc[p] = "pull_stream"
    /\ \/ /\ loc[p].chunks < MaxChunks
          /\ loc' = [loc EXCEPT ![p].chunks = @ + 1]
          /\ Goto(p, "pull_stream")
          /\ UNCHANGED image
       \/ /\ Finish(p, "Daemon")
          /\ UNCHANGED <<loc, image>>
       \/ /\ image' = "latest"
          /\ Finish(p, "ok")
          /\ UNCHANGED loc
    /\ UNCHANGED <<hostVars, fsVars, session, installed, sessSpec, sessId,
                   created, cmd, calls, pre>>

-----------------------------------------------------------------------------
(* kill, restart, remove, status *)

Kill(p) ==
    /\ pc[p] = "kill"
    /\ Call(p, "kill")
    /\ \/ /\ KillAccepted
          /\ DaemonKill
          /\ Finish(p, "ok")
       \/ /\ Finish(p, "Daemon")
          /\ UNCHANGED daemonVars
    /\ UNCHANGED <<hostVars, fsVars, cmd, loc, pre>>

Restart(p) ==
    /\ pc[p] = "restart"
    /\ Call(p, "restart")
    /\ \/ /\ RestartAccepted
          /\ DaemonRestart
          /\ Finish(p, "ok")
       \/ /\ Finish(p, "Daemon")
          /\ UNCHANGED daemonVars
    /\ UNCHANGED <<hostVars, fsVars, cmd, loc, pre>>

\* variant: the failure of the stop is propagated (C8 must tell it from the
\* code)
RemoveStopPropagates(p) ==
    /\ pc[p] = "rm_stop"
    /\ Call(p, "stop")
    /\ \/ /\ StopAccepted
          /\ DaemonStop
          /\ Goto(p, "rm_delete")
          /\ UNCHANGED loc
       \/ /\ loc' = [loc EXCEPT ![p].stop_failed = TRUE]
          /\ Finish(p, "Daemon")
          /\ UNCHANGED daemonVars
    /\ UNCHANGED <<hostVars, fsVars, cmd, pre>>

\* let _ = container.stop(..).await: the outcome is dropped
RemoveStop(p) ==
    /\ pc[p] = "rm_stop"
    /\ Call(p, "stop")
    /\ \/ /\ StopAccepted
          /\ DaemonStop
          /\ UNCHANGED loc
       \/ /\ loc' = [loc EXCEPT ![p].stop_failed = TRUE]
          /\ UNCHANGED daemonVars
    /\ Goto(p, "rm_delete")
    /\ UNCHANGED <<hostVars, fsVars, cmd, pre>>

RemoveDelete(p) ==
    /\ pc[p] = "rm_delete"
    /\ Call(p, "delete")
    /\ \/ /\ DeleteAccepted
          /\ DaemonDelete
          /\ Finish(p, "ok")
       \/ /\ Finish(p, "Daemon")
          /\ UNCHANGED daemonVars
    /\ UNCHANGED <<hostVars, fsVars, cmd, loc, pre>>

\* variant: the failure of the inspect is propagated (C9 must tell it from
\* the code)
StatusPropagates(p) ==
    /\ pc[p] = "status"
    /\ Call(p, "inspect")
    /\ \/ /\ InspectAccepted
          /\ \E r \in {"state", "nostate"} :
                loc' = [loc EXCEPT ![p].inspect = "ok", ![p].report = r]
          /\ Finish(p, "ok")
       \/ /\ loc' = [loc EXCEPT ![p].inspect = "err"]
          /\ Finish(p, "Daemon")
    /\ UNCHANGED <<hostVars, fsVars, daemonVars, cmd, pre>>

\* inspect, and the line printed: the state, no state information, or that
\* the session does not exist
Status(p) ==
    /\ pc[p] = "status"
    /\ Call(p, "inspect")
    /\ \/ /\ InspectAccepted
          /\ \E r \in {"state", "nostate"} :
                loc' = [loc EXCEPT ![p].inspect = "ok", ![p].report = r]
       \/ loc' = [loc EXCEPT ![p].inspect = "err", ![p].report = "absent"]
    /\ Finish(p, "ok")
    /\ UNCHANGED <<hostVars, fsVars, daemonVars, cmd, pre>>

-----------------------------------------------------------------------------
(* Specifications *)

\* storage as an invocation can find it: a child directory only under the
\* base directory, entries only in an existing upper directory
FsStates ==
    {f \in [dirs : SUBSET AllDirs, upper : [Entries -> {"absent", "old"}]] :
        /\ f.dirs # {} => "base" \in f.dirs
        /\ "upper" \notin f.dirs => IsEmptyDir(f.upper)}

InitWith(hosts, fs) ==
    /\ host \in hosts
    /\ \E f \in fs : dirs = f.dirs /\ upper = f.upper
    /\ session = "Absent"
    /\ installed = FALSE
    /\ sessSpec = <<>>
    /\ sessId = 0
    /\ created = 0
    /\ image = "cached"
    /\ pc = [p \in Procs |-> "idle"]
    /\ cmd = [p \in Procs |-> "none"]
    /\ calls = [p \in Procs |-> <<>>]
    /\ result = [p \in Procs |-> "none"]
    /\ loc = [p \in Procs |-> LocInit]
    /\ pre = [p \in Procs |-> Snapshot]

\* the steps of an invocation under way
Step(p) ==
    \/ CreateCaps(p)
    \/ EnsureOverlayRead(p)
    \/ EnsureOverlayAct(p)
    \/ CreateInspect(p)
    \/ CreateCreate(p)
    \/ CreateStart(p)
    \/ CreateExecCreate(p)
    \/ CreateExecStart(p)
    \/ CreateStream(p)
    \/ CreateStop(p)
    \/ RunStart(p)
    \/ RunExecCreate(p)
    \/ RunExecStart(p)
    \/ RunStream(p)
    \/ UpdatePull(p)
    \/ UpdateStream(p)
    \/ Kill(p)
    \/ Restart(p)
    \/ RemoveStop(p)
    \/ RemoveDelete(p)
    \/ Status(p)

\* the host passes the capability checks and has a data directory
HostPasses(h) ==
    /\ check_gpu_drivers(h).ok
    /\ detect_display_server(h) # "none"
    /\ get_data_dir(h).ok

\* Spec: any sequence of invocations, one at a time, on a few hosts
Init == InitWith(LifecycleHosts, FsStates)

Next ==
    \/ \E c \in Commands : Start(1, c)
    \/ Step(1)

Spec == Init /\ [][Next]_vars

\* SpecHost: create invocations, one at a time, on every host
HostFsStates == {f \in FsStates : f.dirs \in {{}, AllDirs}}

InitHost == InitWith(AllHosts, HostFsStates)

NextHost ==
    \/ Start(1, "create")
    \/ CreateCaps(1)
    \/ EnsureOverlayRead(1)
    \/ EnsureOverlayAct(1)
    \/ CreateInspect(1)
    \/ CreateCreate(1)
    \/ CreateStart(1)
    \/ CreateExecCreate(1)
    \/ CreateExecStart(1)
    \/ CreateStream(1)
    \/ CreateStop(1)

SpecHost == InitHost /\ [][NextHost]_vars

\* SpecConc: create invocations of two processes for the same user, their
\* steps interleaved, on hosts that pass every check
ConcHosts == {h \in LifecycleHosts : h.uid # 0 /\ h.socket /\ HostPasses(h)}

InitConc == InitWith(ConcHosts, FsStates)

NextConc ==
    \E p \in Procs :
        \/ Start(p, "create")
        \/ CreateCaps(p)
        \/ EnsureOverlayRead(p)
        \/ EnsureOverlayAct(p)
        \/ CreateInspect(p)
        \/ CreateCreate(p)
        \/ CreateStart(p)
        \/ CreateExecCreate(p)
        \/ CreateExecStart(p)
        \/ CreateStream(p)
        \/ CreateStop(p)

SpecConc == InitConc /\ [][NextConc]_vars

-----------------------------------------------------------------------------
(* Vocabulary of the properties *)

MutatingCalls ==
    {"create", "start", "stop", "kill", "restart", "delete",
     "exec_create", "exec_start"}

CapabilityErrors == {"NoGpu", "NoDisplay", "NvidiaMissing"}

GuardErrors == {"Root", "NoSocket"}

\* the invocation of p has ended
Ended(p, c) == pc[p] = "done" /\ cmd[p] = c

\* the daemon-visible session is what it was when the invocation of p started
SessionAsBefore(p) ==
    /\ session = pre[p].session
    /\ installed = pre[p].installed
    /\ sessId = pre[p].sessId
    /\ sessSpec = pre[p].sessSpec

\* the storage directories and their contents are what they were
StorageAsBefore(p) ==
    /\ dirs = pre[p].dirs
    /\ upper = pre[p].upper

\* the capability checks the host fails: no graphics device node, no display
\* transport, the primary Nvidia device node without the toolkit
HostFailures(h) ==
    (IF ~h.dri THEN {"NoGpu"} ELSE {})
    \cup (IF h.wayland = NoVal /\ h.display = NoVal THEN {"NoDisplay"} ELSE {})
    \cup (IF "/dev/nvidia0" \in h.nvidia /\ ~h.toolkit
          THEN {"NvidiaMissing"} ELSE {})

\* the Nvidia device nodes an execution spec binds
NvidiaBinds(o) ==
    {o.mounts[i].source : i \in {j \in 1..Len(o.mounts) :
                                    o.mounts[j].type = "bind"}}
    \cap Range(NvidiaNodes)

\* the upperdir option of the overlay mount of an execution spec
UpperOption(o) ==
    LET i == CHOOSE j \in 1..Len(o.mounts) : o.mounts[j].type = "overlay"
    IN  o.mounts[i].options[1]

\* where the upper directory of the host's user lies
ExpectedUpperOption(h) ==
    IF h.xdg # NoVal THEN "upperdir=/data/hackerosteam/upper"
    ELSE "upperdir=/home/u/.local/share/hackerosteam/upper"

EnvKeys(o) == {o.env[i][1] : i \in 1..Len(o.env)}

-----------------------------------------------------------------------------
(* C1 *)

\* C1: when the inspect of a create invocation succeeds (the session already
\* exists), the invocation has ended with success, inspect is the only daemon
\* call it issued, and the session is what it was.
C1_CreateOnExistingIsNoop ==
    \A p \in Procs :
        (cmd[p] = "create" /\ loc[p].inspect = "ok") =>
            /\ pc[p] = "done"
            /\ result[p] = "ok"
            /\ calls[p] = <<"inspect">>
            /\ SessionAsBefore(p)

C1_Witness ==
    \E p \in Procs :
        /\ Ended(p, "create")
        /\ loc[p].inspect = "ok"
        /\ pre[p].session \in {"Created", "Stopped"}
        /\ result[p] = "ok"

-----------------------------------------------------------------------------
(* C2 *)

\* C2: on a host that fails a capability check, a create invocation that has
\* passed the root and socket guards ends with the error of a check the host
\* fails and has issued no daemon call; and a create invocation ends with a
\* capability error only on such a host, having issued no daemon call.
C2_CapabilityFailureBeforeDaemon ==
    \A p \in Procs :
        (cmd[p] = "create" /\ pc[p] \notin {"idle", "caps"}
         /\ result[p] \notin GuardErrors) =>
            /\ HostFailures(host) # {} =>
                  /\ pc[p] = "done"
                  /\ result[p] \in HostFailures(host)
                  /\ calls[p] = <<>>
            /\ result[p] \in CapabilityErrors =>
                  /\ result[p] \in HostFailures(host)
                  /\ calls[p] = <<>>

C2_Witness ==
    \E p \in Procs :
        /\ Ended(p, "create")
        /\ result[p] = "NvidiaMissing"
        /\ host.dri
        /\ calls[p] = <<>>

-----------------------------------------------------------------------------
(* C3 *)

\* C3, as claimed: after a create invocation that ended with an error, the
\* session is absent or fully provisioned (install completed, not running).
C3_FailedCreateLeavesNoPartialSession ==
    \A p \in Procs :
        (Ended(p, "create") /\ result[p] # "ok") =>
            \/ session = "Absent"
            \/ installed /\ session \in {"Created", "Stopped"}

\* C3, amended: a create invocation that ended with an error before its start
\* call (at a guard, a capability check, the storage setup or the daemon
\* create call) leaves the session exactly as it was; one that ended with an
\* error at or after its start call leaves the session it created, with the
\* install not completed or still running.
C3_FailedCreateBeforeStartChangesNothing ==
    \A p \in Procs :
        (Ended(p, "create") /\ result[p] # "ok") =>
            IF "start" \notin Range(calls[p])
            THEN SessionAsBefore(p)
            ELSE /\ session # "Absent"
                 /\ sessId # pre[p].sessId
                 /\ ~installed \/ session = "Running"

C3_Witness ==
    \E p \in Procs :
        /\ Ended(p, "create")
        /\ result[p] = "Daemon"
        /\ calls[p] = <<"inspect", "create">>

-----------------------------------------------------------------------------
(* C4 *)

\* C4: no step of any lifecycle command deletes or rewrites an entry of the
\* upper directory; a remove that ends with success leaves the session
\* Absent; and a session that comes into being gets a daemon identity no
\* earlier session had and mounts the upper directory of the host's user.
C4_Durability ==
    [][ /\ \A e \in Entries : upper[e] # "absent" => upper'[e] = upper[e]
        /\ \A p \in Procs :
              (pc[p] # "done" /\ Ended(p, "remove")' /\ result'[p] = "ok")
                  => session' = "Absent"
        /\ (session = "Absent" /\ session' # "Absent") =>
              /\ sessId' > created
              /\ UpperOption(sessSpec'[1]) = ExpectedUpperOption(host)
      ]_vars

\* create, remove, create: the second session, with the data of before
C4_Witness ==
    \E p \in Procs :
        /\ Ended(p, "create")
        /\ result[p] = "ok"
        /\ "create" \in Range(calls[p])
        /\ sessId = 2
        /\ pre[p].upper["save"] = "old"
        /\ upper["save"] = "old"

-----------------------------------------------------------------------------
(* C5 *)

\* C5: right after get_host_data_dirs and ensure_overlay all four directories
\* exist, whichever of them existed before; and when the upper directory was
\* not empty ensure_overlay has taken the restore path and the entries are
\* exactly as they were (when it was empty, the init path).
C5_OverlayEnsured ==
    \A p \in Procs :
        pc[p] = "inspect" =>
            /\ dirs = AllDirs
            /\ IF IsEmptyDir(pre[p].upper)
               THEN loc[p].overlay = "init"
               ELSE loc[p].overlay = "restore"
            /\ upper = pre[p].upper

C5_Witness ==
    \E p \in Procs :
        /\ pc[p] = "inspect"
        /\ pre[p].dirs = {"base", "upper"}
        /\ ~IsEmptyDir(pre[p].upper)
        /\ loc[p].overlay = "restore"

-----------------------------------------------------------------------------
(* C6 *)

\* C6, as claimed: on a host with a graphics device and the toolkit, the
\* execution spec create builds binds exactly the Nvidia device nodes that
\* are present.
C6_NvidiaBindsAreThePresentNodes ==
    \A p \in Procs :
        (loc[p].opts # <<>> /\ host.dri /\ host.toolkit) =>
            NvidiaBinds(loc[p].opts[1]) = host.nvidia

-----------------------------------------------------------------------------
(* C7 *)

\* C7, as claimed: in create, run, kill, restart, remove and status every
\* mutating daemon call comes after an inspect of the same invocation.
C7_InspectBeforeEveryMutation ==
    \A p \in Procs :
        cmd[p] \in {"create", "run", "kill", "restart", "remove", "status"} =>
            \A i \in 1..Len(calls[p]) :
                calls[p][i] \in MutatingCalls =>
                    \E j \in 1..(i - 1) : calls[p][j] = "inspect"

\* C7, amended: create, run and status issue an inspect as their first
\* daemon call, before every mutating call of the invocation; kill, restart
\* and remove issue their mutating calls and never an inspect; and every
\* invocation starts with no observation of an earlier one.
C7_InspectFirstInCreateRunStatus ==
    \A p \in Procs :
        /\ (cmd[p] \in {"create", "run", "status"} /\ calls[p] # <<>>) =>
              calls[p][1] = "inspect"
        /\ cmd[p] \in {"kill", "restart", "remove"} =>
              /\ "inspect" \notin Range(calls[p])
              /\ Range(calls[p]) \subseteq MutatingCalls
        /\ calls[p] = <<>> => loc[p].inspect = "none"

C7_Witness ==
    \E p \in Procs :
        /\ Ended(p, "run")
        /\ result[p] = "ok"
        /\ pre[p].session = "Running"
        /\ calls[p] = <<"inspect", "start", "exec_create", "exec_start">>

-----------------------------------------------------------------------------
(* C8 *)

\* C8: a remove invocation that has passed the guards issues stop, then
\* delete, whatever the session state and whether or not the stop failed;
\* when it ends with success the session is Absent; the storage directories
\* and their contents are as they were.
C8_RemoveStopsThenDeletes ==
    \A p \in Procs :
        (cmd[p] = "remove" /\ result[p] \notin GuardErrors) =>
            /\ pc[p] = "rm_delete" => calls[p] = <<"stop">>
            /\ pc[p] = "done" =>
                  /\ calls[p] = <<"stop", "delete">>
                  /\ result[p] = "ok" => session = "Absent"
            /\ StorageAsBefore(p)

C8_Witness ==
    \E p \in Procs :
        /\ Ended(p, "remove")
        /\ loc[p].stop_failed
        /\ pre[p].session = "Running"
        /\ result[p] = "ok"
        /\ session = "Absent"

-----------------------------------------------------------------------------
(* C9 *)

\* C9: a status invocation that has passed the guards ends with success in
\* every session state, reporting that the session does not exist when the
\* inspect fails; inspect is its only daemon call, and the session and the
\* storage are as they were.
C9_StatusOnlyInspects ==
    \A p \in Procs :
        (Ended(p, "status") /\ result[p] \notin GuardErrors) =>
            /\ result[p] = "ok"
            /\ calls[p] = <<"inspect">>
            /\ loc[p].inspect = "err" => loc[p].report = "absent"
            /\ pre[p].session = "Absent" => loc[p].report = "absent"
            /\ SessionAsBefore(p)
            /\ StorageAsBefore(p)

C9_Witness ==
    \E p \in Procs :
        /\ Ended(p, "status")
        /\ pre[p].session = "Absent"
        /\ loc[p].report = "absent"
        /\ result[p] = "ok"

-----------------------------------------------------------------------------
(* C10 *)

\* C10: the environment of the execution spec holds DISPLAY exactly when the
\* detected transport is X11 and WAYLAND_DISPLAY exactly when it is Wayland,
\* never both, and each with the value the host sets.
C10_DisplayVariableOfDetectedTransport ==
    \A p \in Procs :
        loc[p].opts # <<>> =>
            LET o == loc[p].opts[1]
            IN  /\ "DISPLAY" \in EnvKeys(o) <=> loc[p].display = "x11"
                /\ "WAYLAND_DISPLAY" \in EnvKeys(o) <=> loc[p].display = "wayland"
                /\ ~("DISPLAY" \in EnvKeys(o) /\ "WAYLAND_DISPLAY" \in EnvKeys(o))
                /\ \A i \in 1..Len(o.env) :
                      /\ o.env[i][1] = "DISPLAY" => o.env[i][2] = host.display
                      /\ o.env[i][1] = "WAYLAND_DISPLAY"
                            => o.env[i][2] = host.wayland

C10_Witness ==
    \E p \in Procs :
        /\ loc[p].opts # <<>>
        /\ host.wayland # NoVal
        /\ host.display # NoVal
        /\ "WAYLAND_DISPLAY" \in EnvKeys(loc[p].opts[1])

-----------------------------------------------------------------------------
(* C11 *)

-----------------------------------------------------------------------------
(* C12 *)

\* an execution spec selects the Nvidia runtime, sets an Nvidia variable or
\* allows an Nvidia device major
UsesNvidia(o) ==
    \/ o.oci_runtime = "nvidia"
    \/ EnvKeys(o) \cap {"NVIDIA_VISIBLE_DEVICES", "NVIDIA_DRIVER_CAPABILITIES"} # {}
    \/ \E i \in 1..Len(o.devices) : o.devices[i].major \in {195, 235}

\* C12, as claimed: for a create invocation past the capability checks, on a
\* host with a graphics device: an Nvidia device node present and the toolkit
\* absent end it with NvidiaMissing; no Nvidia device node present lets
\* detection succeed with a vendor that is not Nvidia; and a spec uses the
\* Nvidia runtime, variables or cgroup rules only if the toolkit is present.
C12_GpuDetection ==
    \A p \in Procs :
        (cmd[p] = "create" /\ pc[p] \notin {"idle", "caps"}
         /\ result[p] \notin GuardErrors /\ host.dri) =>
            /\ (host.nvidia # {} /\ ~host.toolkit) =>
                  result[p] = "NvidiaMissing"
            /\ host.nvidia = {} =>
                  /\ result[p] \notin {"NoGpu", "NvidiaMissing"}
                  /\ ~loc[p].is_nvidia
            /\ (loc[p].opts # <<>> /\ UsesNvidia(loc[p].opts[1])) =>
                  host.toolkit

-----------------------------------------------------------------------------
(* C13 *)

\* the transport a create invocation that has passed the guards and the
\* graphics check has detected: what it holds once the storage directories
\* are made, nothing yet when making them failed
DetectedBy(p) ==
    IF result[p] = "Io" /\ loc[p].display = "none" THEN {} ELSE {loc[p].display}

\* C13: the transport detected is Wayland whenever WAYLAND_DISPLAY is set,
\* DISPLAY set or not; X11 only when DISPLAY is set and WAYLAND_DISPLAY is
\* not; and none, which ends the invocation with the no-display error, only
\* when neither is set.
C13_DisplayPrecedence ==
    \A p \in Procs :
        (cmd[p] = "create" /\ pc[p] \notin {"idle", "caps"}
         /\ result[p] \notin GuardErrors \cup {"NoGpu", "NvidiaMissing"}) =>
            /\ host.wayland # NoVal =>
                  result[p] # "NoDisplay" /\ DetectedBy(p) \subseteq {"wayland"}
            /\ (host.wayland = NoVal /\ host.display # NoVal) =>
                  result[p] # "NoDisplay" /\ DetectedBy(p) \subseteq {"x11"}
            /\ (host.wayland = NoVal /\ host.display = NoVal) =>
                  result[p] = "NoDisplay" /\ loc[p].display = "none"

C13_Witness ==
    \E p \in Procs :
        /\ cmd[p] = "create"
        /\ pc[p] = "ov_read"
        /\ host.wayland # NoVal
        /\ host.display # NoVal
        /\ loc[p].display = "wayland"

-----------------------------------------------------------------------------
(* C14 *)

\* the daemon calls of a create invocation that finds no session
CreateCallOrder ==
    <<"inspect", "create", "start", "exec_create", "exec_start", "stop">>

\* C14: a create invocation that starts with the session Absent issues its
\* daemon calls in the order inspect, create, start, exec-create, exec-start,
\* stop, each once; the stop is issued only when the install command's output
\* has been read to its end; and when no step fails the invocation has issued
\* all six, the exec was of the install command, and the session exists and
\* is not running.
C14_CreateCallOrder ==
    \A p \in Procs :
        (cmd[p] = "create" /\ pc[p] # "idle" /\ pre[p].session = "Absent") =>
            /\ Len(calls[p]) <= Len(CreateCallOrder)
            /\ calls[p] = SubSeq(CreateCallOrder, 1, Len(calls[p]))
            /\ pc[p] = "stop" => installed /\ session = "Running"
            /\ (pc[p] = "done" /\ result[p] = "ok") =>
                  /\ calls[p] = CreateCallOrder
                  /\ loc[p].exec = "root"
                  /\ installed
                  /\ session = "Stopped"

C14_Witness ==
    \E p \in Procs :
        /\ Ended(p, "create")
        /\ result[p] = "ok"
        /\ pre[p].session = "Absent"
        /\ loc[p].chunks = MaxChunks
        /\ calls[p] = CreateCallOrder
        /\ session = "Stopped"

-----------------------------------------------------------------------------
(* C15 *)

\* the daemon calls create_container issues when it returns Ok, by the
\* session state it found
CreatePart(p) ==
    IF pre[p].session = "Absent" THEN CreateCallOrder ELSE <<"inspect">>

\* the daemon calls of run after create_container
RunCallOrder == <<"start", "exec_create", "exec_start">>

\* the invocation of p is in the part of run that follows create_container
AfterCreatePart(p) ==
    \/ pc[p] \in {"r_start", "r_exec_create", "r_exec_start", "r_stream"}
    \/ loc[p].exec = "steam"
    \/ pc[p] = "done" /\ result[p] = "ok"

\* C15: a run invocation, whatever session state it starts in, first issues
\* the calls of a create that returns Ok, then start, and only when that start
\* has succeeded the exec of the interactive command, as the user steam; the
\* session is Running whenever the exec is being issued, and when the
\* invocation ends with success.
C15_RunOrder ==
    \A p \in Procs :
        (cmd[p] = "run" /\ pc[p] # "idle") =>
            /\ AfterCreatePart(p) =>
                  LET n == Len(CreatePart(p))
                      tail == SubSeq(calls[p], n + 1, Len(calls[p]))
                  IN  /\ Len(calls[p]) >= n
                      /\ SubSeq(calls[p], 1, n) = CreatePart(p)
                      /\ Len(tail) <= Len(RunCallOrder)
                      /\ tail = SubSeq(RunCallOrder, 1, Len(tail))
            /\ pc[p] \in {"r_exec_create", "r_exec_start", "r_stream"} =>
                  /\ session = "Running"
                  /\ calls[p][Len(CreatePart(p)) + 1] = "start"
            /\ pc[p] \in {"r_exec_start", "r_stream"} => loc[p].exec = "steam"
            /\ (pc[p] = "done" /\ result[p] = "ok") =>
                  /\ session = "Running"
                  /\ loc[p].exec = "steam"
                  /\ calls[p] = CreatePart(p) \o RunCallOrder

C15_Witness ==
    \E p \in Procs :
        /\ Ended(p, "run")
        /\ result[p] = "ok"
        /\ pre[p].session = "Absent"
        /\ calls[p] = CreateCallOrder \o RunCallOrder
        /\ session = "Running"
        /\ loc[p].exec = "steam"

-----------------------------------------------------------------------------
(* C16 *)

\* C16: an update invocation issues no daemon call but the image pull, and
\* that once: in every session state the session the daemon shows and the
\* storage directories are, during and after the invocation, what they were
\* when it started.
C16_UpdateOnlyPulls ==
    \A p \in Procs :
        (cmd[p] = "update" /\ pc[p] # "idle") =>
            /\ Range(calls[p]) \subseteq {"pull"}
            /\ Len(calls[p]) <= 1
            /\ Range(calls[p]) \cap (MutatingCalls \cup {"inspect"}) = {}
            /\ SessionAsBefore(p)
            /\ StorageAsBefore(p)
            /\ (pc[p] = "done" /\ result[p] = "ok") =>
                  calls[p] = <<"pull">> /\ image = "latest"

C16_Witness ==
    \E p \in Procs :
        /\ Ended(p, "update")
        /\ result[p] = "ok"
        /\ pre[p].session = "Running"
        /\ pre[p].installed
        /\ pre[p].image = "cached"
        /\ image = "latest"
        /\ session = "Running"

-----------------------------------------------------------------------------
(* C19 *)

\* C19: a create invocation that ends with success leaves a session in which
\* the first-boot install has completed, whatever earlier invocations left
\* behind.
C19_SuccessfulCreateLeavesInstalledSession ==
    \A p \in Procs :
        (Ended(p, "create") /\ result[p] = "ok") => installed

-----------------------------------------------------------------------------
(* C20 *)

\* C20: on a host where the caller is root or the daemon socket is missing,
\* every invocation, of whatever command, ends at once with the guard's error,
\* with no daemon call issued and the storage directories and the session as
\* they were; an invocation that has issued a daemon call or made a directory
\* runs as a non-root caller with the socket present.
C20_GuardsBeforeEverything ==
    \A p \in Procs :
        pc[p] # "idle" =>
            /\ (host.uid = 0 \/ ~host.socket) =>
                  /\ pc[p] = "done"
                  /\ result[p] = (IF host.uid = 0 THEN "Root" ELSE "NoSocket")
                  /\ calls[p] = <<>>
                  /\ StorageAsBefore(p)
                  /\ SessionAsBefore(p)
            /\ (calls[p] # <<>> \/ dirs # pre[p].dirs) =>
                  host.uid # 0 /\ host.socket
            /\ result[p] \in GuardErrors <=> (host.uid = 0 \/ ~host.socket)

C20_Witness ==
    \E p \in Procs :
        /\ Ended(p, "run")
        /\ result[p] = "NoSocket"
        /\ host.uid # 0
        /\ ~host.socket
        /\ calls[p] = <<>>
        /\ dirs = {}

-----------------------------------------------------------------------------
(* C17 *)

\* the invocation of p saw the upper directory empty, and took the
\* initialization path of ensure_overlay
InitOnEmpty(p) ==
    /\ cmd[p] = "create"
    /\ loc[p].is_empty
    /\ loc[p].overlay = "init"

\* both invocations saw the upper directory empty and took the
\* initialization path, p when entries had been written to it meanwhile
RacedOnEmptiness(p) ==
    /\ \A q \in Procs : InitOnEmpty(q)
    /\ ~IsEmptyDir(loc[p].found)

\* an entry the upper directory held when ensure_overlay acted for p is gone
\* or is not what it was
EntryLost(p) ==
    \E e \in Entries : loc[p].found[e] # "absent" /\ upper[e] # loc[p].found[e]

\* C17, as stated: when two concurrent create invocations have both seen the
\* upper directory empty and both taken the initialization path, one of them
\* over entries written meanwhile, entries of the upper directory are lost.
C17_RaceLosesEntries ==
    \A p \in Procs : RacedOnEmptiness(p) => EntryLost(p)

\* C17, amended: two concurrent create invocations can both see the upper
\* directory empty and both take the initialization path, but that path only
\* makes directories that are missing: every entry the upper directory held
\* when ensure_overlay acted, or when the invocation started, is there
\* afterwards with the content it had.
C17_RaceLosesNothing ==
    \A p \in Procs :
        /\ loc[p].overlay # "none" => ~EntryLost(p)
        /\ pc[p] # "idle" =>
              \A e \in Entries :
                  pre[p].upper[e] # "absent" => upper[e] = pre[p].upper[e]
        /\ loc[p].overlay = "init" => {"base", "upper", "work"} \subseteq dirs

C17_Witness ==
    \E p \in Procs :
        /\ RacedOnEmptiness(p)
        /\ pc[p] = "inspect"
        /\ IsEmptyDir(pre[p].upper)
        /\ upper[".steam"] = "new"

-----------------------------------------------------------------------------
(* C18 *)

\* both processes are in a create invocation that started with the session
\* Absent, and no call of either has failed for a reason outside the session's
\* state: the two invocations overlap, since one that ends without a failure
\* leaves a session for the next to find
ConcurrentCreatesFromAbsent ==
    \A p \in Procs :
        /\ cmd[p] = "create"
        /\ pre[p].session = "Absent"
        /\ result[p] \in {"none", "ok"} \/ loc[p].conflict

\* the invocation of p has got an answer to its create call
IssuedCreate(p) == "create" \in Range(calls[p])

\* C18: when two concurrent create invocations start with the session Absent,
\* the daemon create call is issued by at most one of them, neither ends with
\* the daemon's refusal to create a session that exists, and neither ends
\* with success while the first-boot install of the session has not
\* completed.
C18_ConcurrentCreatesAreSafe ==
    ConcurrentCreatesFromAbsent =>
        /\ Cardinality({p \in Procs : IssuedCreate(p)}) <= 1
        /\ \A p \in Procs : ~(pc[p] = "done" /\ loc[p].conflict)
        /\ \A p \in Procs : (pc[p] = "done" /\ result[p] = "ok") => installed

====
